---- MODULE Spec2Model ----
(***************************************************************************)
(* snapchef: the recipe resolution pipeline of internal/api/handler.go     *)
(* (Handler.Upload with the Gemini client, Handler.UploadV2 with the local *)
(* LLM client), the two model clients and the PostgreSQL store.            *)
(*                                                                         *)
(* Texts that the code inspects (descriptions, cuisine, model output) are  *)
(* sequences of characters or tokens, and strings.TrimSpace, ToLower,      *)
(* HasPrefix, Index, TrimPrefix, ... are computed on them.  Every store    *)
(* and provider call is one atomic step of the run that makes it; runs of  *)
(* different requests interleave between calls.                            *)
(***************************************************************************)
EXTENDS Integers, Sequences, FiniteSets, TLC

\* ------------------------------------------------------------------ bounds

\* How many requests are served in one behaviour (a counter cap).
MaxRuns == 3

\* The request goroutines that may be in flight at the same time.
Procs == {"p1", "p2"}

\* ------------------------------------------------------------ Go strings

Space == {" ", "\n"}

LowerChar(c) ==
    CASE c = "N" -> "n"
      [] c = "O" -> "o"
      [] c = "P" -> "p"
      [] c = "I" -> "i"
      [] c = "V" -> "v"
      [] c = "K" -> "k"
      [] c = "G" -> "g"
      [] OTHER -> c

\* strings.ToLower
ToLower(s) == [i \in 1..Len(s) |-> LowerChar(s[i])]

RECURSIVE TrimLeft(_)
TrimLeft(s) == IF s # <<>> /\ Head(s) \in Space THEN TrimLeft(Tail(s)) ELSE s

RECURSIVE TrimRight(_)
TrimRight(s) ==
    IF s # <<>> /\ s[Len(s)] \in Space THEN TrimRight(SubSeq(s, 1, Len(s) - 1)) ELSE s

\* strings.TrimSpace
TrimSpace(s) == TrimRight(TrimLeft(s))

\* strings.HasPrefix
HasPrefix(s, p) == Len(s) >= Len(p) /\ SubSeq(s, 1, Len(p)) = p

\* strings.HasSuffix
HasSuffix(s, p) == Len(s) >= Len(p) /\ SubSeq(s, Len(s) - Len(p) + 1, Len(s)) = p

\* strings.TrimPrefix
TrimPrefix(s, p) == IF HasPrefix(s, p) THEN SubSeq(s, Len(p) + 1, Len(s)) ELSE s

\* strings.TrimSuffix
TrimSuffix(s, p) == IF HasSuffix(s, p) THEN SubSeq(s, 1, Len(s) - Len(p)) ELSE s

\* strings.Index for a one-token needle: 0-based, -1 when absent
Index(s, t) ==
    IF \E i \in 1..Len(s) : s[i] = t
    THEN (CHOOSE i \in 1..Len(s) : s[i] = t /\ \A j \in 1..(i - 1) : s[j] # t) - 1
    ELSE -1

\* strings.LastIndex for a one-token needle: 0-based, -1 when absent
LastIndex(s, t) ==
    IF \E i \in 1..Len(s) : s[i] = t
    THEN (CHOOSE i \in 1..Len(s) : s[i] = t /\ \A j \in (i + 1)..Len(s) : s[j] # t) - 1
    ELSE -1

\* ------------------------------------------------------------------ inputs

\* Image bytes a request may carry: the empty file of the tests, and one other.
Images == {<<>>, <<1>>}

\* Uploaded file names.
Filenames == {<<"a", ".", "p", "n", "g">>, <<"b", ".", "g", "i", "f">>}

\* Query parameters of a request: dietary_preference and cuisine, each may be
\* absent ("").
Queries ==
    { [dietary_preference |-> <<>>, cuisine |-> <<>>],
      [dietary_preference |-> <<"v", "e", "g">>, cuisine |-> <<>>],
      [dietary_preference |-> <<"K", "e", "t">>, cuisine |-> <<"I", "t">>],
      [dietary_preference |-> <<>>, cuisine |-> <<"I", "t">>] }

\* Texts the model may answer the food question with.
Descriptions ==
    { <<>>,                      \* ""
      <<" ", "N", "O">>,         \* " NO..."
      <<"N", "o", "o">>,         \* "Noo..."
      <<"P", "a", "s">> }        \* "Pas..."

\* GenerateImageHash: hex of SHA-256 of the bytes (first 8 digits of the digests).
GenerateImageHash(imageData) ==
    CASE imageData = <<>> -> "e3b0c442"
      [] imageData = <<1>> -> "4bf5122f"
      [] imageData = <<2>> -> "dbc1b4c9"

Hashes == {GenerateImageHash(b) : b \in Images}

\* filepath.Ext: the suffix of the name from its last dot, "" without one
Ext(filename) ==
    IF LastIndex(filename, ".") = -1 THEN <<>>
    ELSE SubSeq(filename, LastIndex(filename, ".") + 1, Len(filename))

\* The map with an entry for ".gif".
allowedExtensionsAndGif ==
    { <<".", "j", "p", "e", "g">>, <<".", "j", "p", "g">>, <<".", "p", "n", "g">>,
      <<".", "g", "i", "f">> }

allowedExtensions ==
    { <<".", "j", "p", "e", "g">>, <<".", "j", "p", "g">>, <<".", "p", "n", "g">> }

\* ------------------------------------------------------------------ Recipe

\* A nil *recipe.Recipe.
Nil == [nil |-> TRUE]

\* The JSON objects the model may write, by name.
JSONObject(b) ==
    CASE b = "B1" ->
           [title |-> "X", cuisine |-> <<"I", "t">>,
            dietary_preference |-> <<"V", "e", "g">>,
            cooking_time |-> "10 min", servings |-> "2",
            ingredients |-> [Egg |-> "2"], instructions |-> <<"Boil">>,
            shopping_cart |-> [Egg |-> "2"]]
      [] b = "B2" ->
           [title |-> "Y", cuisine |-> <<>>, dietary_preference |-> <<>>,
            cooking_time |-> "5 min", servings |-> "1",
            ingredients |-> [Rice |-> "1"], instructions |-> <<"Steam", "Serve">>,
            shopping_cart |-> [Rice |-> "1"]]

BodyNames == {"B1", "B2"}

\* Recipe.UnmarshalJSON: the fields of the object, cuisine and
\* dietary_preference lower-cased; image_hash and image_path are not in the
\* object and keep their zero values.
UnmarshalJSON(o) ==
    [ImageHash |-> "", Title |-> o.title, Ingredients |-> o.ingredients,
     Instructions |-> o.instructions, ShoppingCart |-> o.shopping_cart,
     Cuisine |-> ToLower(o.cuisine),
     DietaryPreference |-> ToLower(o.dietary_preference),
     CookingTime |-> o.cooking_time, Servings |-> o.servings, ImagePath |-> <<>>]

\* json.Unmarshal with its error dropped: a text that is no object leaves the
\* Recipe as it was declared.
UnmarshalErrorDropped(text) ==
    LET t == TrimSpace(text) IN
    IF Len(t) = 3 /\ t[1] = "{" /\ t[2] \in BodyNames /\ t[3] = "}"
    THEN [err |-> "nil", recipe |-> UnmarshalJSON(JSONObject(t[2]))]
    ELSE [err |-> "nil",
          recipe |-> [UnmarshalJSON(JSONObject("B2")) EXCEPT !.Title = ""]]

\* json.Unmarshal of a text into a Recipe: the text must be one object,
\* white space around it allowed.
Unmarshal(text) ==
    LET t == TrimSpace(text) IN
    IF Len(t) = 3 /\ t[1] = "{" /\ t[2] \in BodyNames /\ t[3] = "}"
    THEN [err |-> "nil", recipe |-> UnmarshalJSON(JSONObject(t[2]))]
    ELSE [err |-> "unmarshal", recipe |-> Nil]

\* Texts the model may answer the recipe prompt with, as tokens: "fence_json"
\* and "fence" are the Markdown fences that open and close a json code block.
RecipeTexts ==
    { <<"{", "B1", "}">>,
      <<"{", "B2", "}">>,
      <<"fence_json", "\n", "{", "B1", "}", "\n", "fence">>,
      <<"prose", "{", "B1", "}", "prose">>,
      <<"}", "{">>,
      <<"prose">> }

\* ---------------------------------------------------------- model clients

\* What one request to the model (genai GenerateContent, or the local
\* client's GenerateContent) may come back with under a context that has
\* expired or not: a text, a transport/API error, or the context's deadline.
ModelAnswers(texts, expired) ==
    IF expired THEN {[err |-> "deadline", text |-> <<>>]}
    ELSE {[err |-> "nil", text |-> t] : t \in texts}
           \cup {[err |-> "transport", text |-> <<>>],
                 [err |-> "deadline", text |-> <<>>]}

\* gemini.Client.IsFoodImage on the model's answer
GeminiIsFoodImage(resp) ==
    IF resp.err # "nil"
    THEN [isFood |-> FALSE, description |-> <<>>, err |-> resp.err]
    ELSE LET response == ToLower(TrimSpace(resp.text)) IN
         IF HasPrefix(response, <<"n", "o">>)
         THEN [isFood |-> FALSE, description |-> resp.text, err |-> "nil"]
         ELSE [isFood |-> TRUE, description |-> resp.text, err |-> "nil"]

\* localllm.Client.IsFoodImage on the model's answer
LocalIsFoodImage(resp) ==
    IF resp.err # "nil"
    THEN [isFood |-> FALSE, description |-> <<>>, err |-> resp.err]
    ELSE IF Len(resp.text) > 2 /\ SubSeq(resp.text, 1, 2) = <<"N", "o">>
         THEN [isFood |-> FALSE, description |-> resp.text, err |-> "nil"]
         ELSE [isFood |-> TRUE, description |-> resp.text, err |-> "nil"]

\* gemini.Client.GenerateRecipe: the food check first (classResp answers it),
\* then the recipe prompt (genResp answers it).  reqs lists the requests that
\* were sent to the model.
GeminiGenerateRecipe(classResp, genResp, dietaryPreference, cuisine) ==
    LET check == GeminiIsFoodImage(classResp)
        jsonString == genResp.text
        startIndex == Index(jsonString, "{")
        endIndex == LastIndex(jsonString, "}")
        cleanJSON == SubSeq(jsonString, startIndex + 1, endIndex + 1)
        u == Unmarshal(cleanJSON)
    IN
    IF check.err # "nil"
    THEN [recipe |-> Nil, err |-> check.err, reqs |-> <<"classify">>]
    ELSE IF ~check.isFood
    THEN [recipe |-> Nil, err |-> "notfood", reqs |-> <<"classify">>]
    ELSE IF genResp.err # "nil"
    THEN [recipe |-> Nil, err |-> genResp.err, reqs |-> <<"classify", "generate">>]
    ELSE IF startIndex = -1 \/ endIndex = -1 \/ startIndex > endIndex
    THEN [recipe |-> Nil, err |-> "nojson", reqs |-> <<"classify", "generate">>]
    ELSE IF u.err # "nil"
    THEN [recipe |-> Nil, err |-> "unmarshal", reqs |-> <<"classify", "generate">>]
    ELSE [recipe |-> [u.recipe EXCEPT !.Cuisine = cuisine,
                                      !.DietaryPreference = dietaryPreference],
          err |-> "nil", reqs |-> <<"classify", "generate">>]

\* localllm.Client.GenerateRecipe: the recipe prompt only
LocalGenerateRecipe(genResp, dietaryPreference, cuisine) ==
    LET cleanedResponse ==
            TrimSpace(TrimSuffix(TrimPrefix(genResp.text, <<"fence_json">>),
                                 <<"fence">>))
        u == Unmarshal(cleanedResponse)
    IN
    IF genResp.err # "nil"
    THEN [recipe |-> Nil, err |-> genResp.err, reqs |-> <<"generate">>]
    ELSE IF u.err # "nil"
    THEN [recipe |-> Nil, err |-> "unmarshal", reqs |-> <<"generate">>]
    ELSE [recipe |-> u.recipe, err |-> "nil", reqs |-> <<"generate">>]

\* The client each endpoint uses: Upload the Gemini client, UploadV2 the local one.
Endpoints == {"Upload", "UploadV2"}

IsFoodImage(endpoint, resp) ==
    IF endpoint = "Upload" THEN GeminiIsFoodImage(resp) ELSE LocalIsFoodImage(resp)

GenerateRecipe(endpoint, classResp, genResp, dietaryPreference, cuisine) ==
    IF endpoint = "Upload"
    THEN GeminiGenerateRecipe(classResp, genResp, dietaryPreference, cuisine)
    ELSE LocalGenerateRecipe(genResp, dietaryPreference, cuisine)

\* ------------------------------------------------------------------- store

\* The errors of a store call that is given a context of its own.
StoreErrorsFreshContext(expired) == {"nil", "db", "deadline"}

\* What a store call may return as its error under a context that has
\* expired or not.
StoreErrors(expired) == IF expired THEN {"deadline"} ELSE {"nil", "db", "deadline"}

\* PostgresStore.GetImageMetadata: the description of the row, "" without one
GetImageMetadata(table, imageHash) ==
    IF \E row \in table : row.image_hash = imageHash
    THEN (CHOOSE row \in table : row.image_hash = imageHash).description
    ELSE <<>>

\* PostgresStore.SaveImageMetadata: INSERT ... ON CONFLICT (image_hash) DO UPDATE
SaveImageMetadata(table, imageHash, description) ==
    {row \in table : row.image_hash # imageHash}
        \cup {[image_hash |-> imageHash, description |-> description]}

\* GetRecipeByImageHash with the query's WHERE on another column: no row matches.
GetRecipeByTitle(table, imageHash) ==
    IF \E row \in table : row.Title = imageHash
    THEN CHOOSE row \in table : row.Title = imageHash
    ELSE Nil

\* A lookup that finds nothing.
GetRecipeByImageHashMiss(table, imageHash) == Nil

\* PostgresStore.GetRecipeByImageHash: the row, nil without one
GetRecipeByImageHash(table, imageHash) ==
    IF \E row \in table : row.ImageHash = imageHash
    THEN CHOOSE row \in table : row.ImageHash = imageHash
    ELSE Nil

\* SaveRecipe with ON CONFLICT (image_hash) DO NOTHING: the first row stays.
SaveRecipeDoNothing(table, recipe) ==
    IF \E row \in table : row.ImageHash = recipe.ImageHash
    THEN table
    ELSE table \cup {recipe}

\* The INSERT without its ON CONFLICT clause on a table without the key.
SaveRecipeInsert(table, recipe) == table \cup {recipe}

\* PostgresStore.SaveRecipe: INSERT ... ON CONFLICT (image_hash) DO UPDATE of
\* every other column
SaveRecipe(table, recipe) ==
    {row \in table : row.ImageHash # recipe.ImageHash} \cup {recipe}

\* The listing with its filters joined by OR.
GetRecipesByCuisineOrDietaryPreferenceAny(table, cuisine, dietaryPreference) ==
    {row \in table :
        \/ cuisine = <<>> /\ dietaryPreference = <<>>
        \/ cuisine # <<>> /\ row.Cuisine = cuisine
        \/ dietaryPreference # <<>> /\ row.DietaryPreference = dietaryPreference}

\* PostgresStore.GetRecipesByCuisineOrDietaryPreference: SELECT ... WHERE 1=1,
\* with AND cuisine = $n appended for a cuisine that is not "" and AND
\* dietary_preference = $n for a dietary preference that is not "".  The
\* query has no ORDER BY: the rows are a set.
GetRecipesByCuisineOrDietaryPreference(table, cuisine, dietaryPreference) ==
    LET conditions ==
            (IF cuisine # <<>> THEN {"cuisine"} ELSE {})
                \cup (IF dietaryPreference # <<>> THEN {"dietary_preference"} ELSE {})
        Where(row) ==
            /\ "cuisine" \in conditions => row.Cuisine = cuisine
            /\ "dietary_preference" \in conditions
                   => row.DietaryPreference = dietaryPreference
    IN {row \in table : Where(row)}

\* ----------------------------------------------------------------- handler

VARIABLES
    recipes,          \* table recipes: a set of Recipe rows, image_hash the key
    image_metadata,   \* table image_metadata: rows [image_hash, description]
    run,              \* per request goroutine: the locals of Upload / UploadV2
    started           \* requests served so far

vars == <<recipes, image_metadata, run, started>>

\* The locals of a handler that is not running.  pc names the call the handler
\* makes next; calls and reqs list the calls made and the requests sent to the
\* model so far; err is the error of the last call; metadataAtStart and
\* recipeAtStart are the rows the tables held for the image when the request
\* arrived; genText is the text the model answered the recipe prompt with.
IdleRun ==
    [pc |-> "idle", endpoint |-> "Upload", imageData |-> <<>>, imageHash |-> "",
     extension |-> <<>>, dietaryPreference |-> <<>>, cuisine |-> <<>>,
     expired |-> FALSE, imageDescription |-> <<>>, isFood |-> FALSE,
     description |-> <<>>, saveErr |-> "nil", recipe |-> Nil,
     status |-> 0, body |-> Nil, calls |-> <<>>, reqs |-> <<>>,
     err |-> "nil", metadataAtStart |-> {}, recipeAtStart |-> {},
     genText |-> <<>>, receivedDietaryPreference |-> Nil, receivedCuisine |-> Nil]

Init ==
    /\ recipes = {}
    /\ image_metadata = {}
    /\ run = [p \in Procs |-> IdleRun]
    /\ started = 0

\* c.String / c.JSON
Response(status, msg, err) == [status |-> status, body |-> [msg |-> msg, err |-> err]]

NoResponse == [status |-> 0, body |-> Nil]

\* isFood on the cache-hit path: the "no"-prefix rule on the stored description
IsFoodFromDescriptionUntrimmed(imageDescription) ==
    ~HasPrefix(ToLower(imageDescription), <<"n", "o">>)

IsFoodFromDescription(imageDescription) ==
    ~HasPrefix(ToLower(TrimSpace(imageDescription)), <<"n", "o">>)

\* The handler without its if !isFood { ...; return }.
AfterClassificationNoReject(isFood) == "GetRecipeByImageHash"

\* if !isFood { saveNonFoodImage ...; return } else the recipe stage
AfterClassification(isFood) ==
    IF ~isFood THEN "saveNonFoodImage" ELSE "GetRecipeByImageHash"

\* The cache test of the classification stage: imageDescription == ""
IsMetadataMiss(imageDescription) == imageDescription = <<>>

OnGetImageMetadataError(err) == Response(500, "database error", err)

OnIsFoodImageError(endpoint, err) ==
    Response(500, IF endpoint = "Upload" THEN "gemini err" ELSE "local llm err", err)

\* The handler answering 500 when SaveImageMetadata fails.
AfterSaveImageMetadataFatal(saveErr, isFood) ==
    IF saveErr # "nil"
    THEN [pc |-> "done", resp |-> Response(500, "failed to save image metadata", saveErr)]
    ELSE [pc |-> AfterClassification(isFood), resp |-> NoResponse]

\* saveErr of SaveImageMetadata is logged only
AfterSaveImageMetadata(saveErr, isFood) ==
    [pc |-> AfterClassification(isFood), resp |-> NoResponse]

RejectedMessage == "Pixel Chef says: It doesn't look like food."

\* The handler returning on the error of saveNonFoodImage as it does on the
\* error of saveImage.
AfterSaveNonFoodImageFatal(saveErr) ==
    IF saveErr # "nil"
    THEN Response(500, "failed to save image", saveErr)
    ELSE Response(200, RejectedMessage, "nil")

\* the response after saveNonFoodImage, whose error is logged only
AfterSaveNonFoodImage(saveErr) == Response(200, RejectedMessage, "nil")

\* The handler answering a failed recipe lookup as if nothing was found.
OnGetRecipeErrorAnswered(err) == Response(200, "no recipe", err)

OnGetRecipeError(err) ==
    IF err = "deadline"
    THEN Response(408, "Database query timed out after 2 seconds", err)
    ELSE Response(500, "database error", err)

\* The handler without its errors.Is(err, context.DeadlineExceeded) test.
OnGenerateRecipeErrorUntested(endpoint, err) ==
    IF endpoint = "Upload" /\ err = "notfood"
    THEN Response(400, "Oops! That doesn't look like food.", err)
    ELSE Response(500, IF endpoint = "Upload" THEN "gemini err" ELSE "local llm err", err)

OnGenerateRecipeError(endpoint, err) ==
    IF err = "deadline"
    THEN Response(408, IF endpoint = "Upload"
                       THEN "Gemini API call timed out after 45 seconds"
                       ELSE "Local LLM API call timed out after 45 seconds", err)
    ELSE IF endpoint = "Upload" /\ err = "notfood"
    THEN Response(400, "Oops! That doesn't look like food. We're here to help you whip up amazing dishes from your ingredients. Just snap a pic of your culinary creations (or ingredients!) and let's get cooking!", err)
    ELSE Response(500, IF endpoint = "Upload" THEN "gemini err" ELSE "local llm err", err)

OnSaveImageError(err) == Response(500, "failed to save image", err)

\* The handler logging the error of saveImage and going on, as it does after
\* saveNonFoodImage.
AfterSaveImageBestEffort(err) == "SaveRecipe"

\* if err != nil { ...; return } after saveImage
AfterSaveImage(err) == IF err # "nil" THEN "done" ELSE "SaveRecipe"

\* The handler logging a SaveRecipe error and answering 200 all the same.
OnSaveRecipeErrorLogged(err) == Response(200, "recipe", err)

OnSaveRecipeError(err) ==
    IF err = "deadline"
    THEN Response(408, "Database save timed out after 2 seconds", err)
    ELSE Response(500, "failed to save recipe", err)

\* saveImage and saveNonFoodImage: image.Decode fails on bytes that are no
\* image (the empty file); MkdirAll, Create and Encode may fail on any.
\* <<1>> stands for the bytes of a well-formed picture.
SaveImageErrors(imageData) == IF imageData = <<>> THEN {"decode"} ELSE {"nil", "fs"}

\* filepath.Join(dir, imageHash+originalExtension)
ImagePath(dir, imageHash, extension) == <<dir, imageHash>> \o extension

\* c.String / c.JSON without the return after it: the handler goes on.
Responded(r, resp) == [r EXCEPT !.status = resp.status, !.body = resp.body]

\* The locals r after the handler has returned with response resp.
Returned(r, resp) == [r EXCEPT !.pc = "done", !.status = resp.status, !.body = resp.body]

\* The locals r after call has returned err.
Called(r, call, err) == [r EXCEPT !.calls = Append(@, call), !.err = err]

\* imageHash := gemini.GenerateImageHash(imageData): of all that the request
\* carries, the key is computed from the bytes of the file.
RequestImageHashSalted(imageData, filename, query) ==
    IF query.cuisine = <<>>
    THEN GenerateImageHash(imageData)
    ELSE GenerateImageHash(<<2>>)

RequestImageHash(imageData, filename, query) == GenerateImageHash(imageData)

\* The arguments of client.GenerateRecipe(ctx, imageData, dietaryPreference, cuisine)
\* as the handler writes them.
GenerateRecipeArgsSwapped(dietaryPreference, cuisine) ==
    [dietaryPreference |-> cuisine, cuisine |-> dietaryPreference]

GenerateRecipeArgs(dietaryPreference, cuisine) ==
    [dietaryPreference |-> dietaryPreference, cuisine |-> cuisine]

\* Entry of Upload / UploadV2 up to the creation of the 45-second context:
\* form file, extension check, query parameters, reading the file, hashing.
\* The request's query and image are drawn from queries and images.
Start(p, queries, images) ==
    /\ run[p].pc \in {"idle", "done"}
    /\ started < MaxRuns
    /\ started' = started + 1
    /\ UNCHANGED <<recipes, image_metadata>>
    /\ \E endpoint \in Endpoints, form \in {"nil", "form", "open", "read"} :
         LET r0 == [IdleRun EXCEPT !.endpoint = endpoint] IN
         \/ /\ form = "form"
            /\ run' = [run EXCEPT ![p] = Returned(r0, Response(400, "get form err", form))]
         \/ /\ form # "form"
            /\ \E filename \in Filenames :
                 LET extension == ToLower(Ext(filename))
                     r1 == [r0 EXCEPT !.extension = extension]
                 IN
                 \/ /\ extension \notin allowedExtensions
                    /\ form = "nil"
                    /\ run' = [run EXCEPT ![p] =
                                 Returned(r1, Response(400, "Invalid file type", "nil"))]
                 \/ /\ extension \in allowedExtensions
                    /\ form = "open"
                    /\ run' = [run EXCEPT ![p] =
                                 Returned(r1, Response(500, "open file err", form))]
                 \/ /\ extension \in allowedExtensions
                    /\ form = "read"
                    /\ run' = [run EXCEPT ![p] =
                                 Returned(r1, Response(500, "read image err", form))]
                 \/ /\ extension \in allowedExtensions
                    /\ form = "nil"
                    /\ \E query \in queries, imageData \in images :
                         LET imageHash == RequestImageHash(imageData, filename, query) IN
                         run' = [run EXCEPT ![p] =
                           [r1 EXCEPT
                              !.dietaryPreference = query.dietary_preference,
                              !.cuisine = query.cuisine,
                              !.pc = "GetImageMetadata",
                              !.imageData = imageData,
                              !.imageHash = imageHash,
                              !.metadataAtStart =
                                  {row \in image_metadata : row.image_hash = imageHash},
                              !.recipeAtStart =
                                  {row \in recipes : row.ImageHash = imageHash}]]

\* GetImageMetadata and, on a hit, isFood from the stored description.
ClassificationLookup(p) ==
    /\ run[p].pc = "GetImageMetadata"
    /\ UNCHANGED <<recipes, image_metadata, started>>
    /\ \E err \in StoreErrors(run[p].expired) :
         LET r == [Called(run[p], "GetImageMetadata", err) EXCEPT
                      !.expired = @ \/ err = "deadline"]
             imageDescription == GetImageMetadata(image_metadata, run[p].imageHash)
         IN
         IF err # "nil"
         THEN run' = [run EXCEPT ![p] = Returned(r, OnGetImageMetadataError(err))]
         ELSE IF IsMetadataMiss(imageDescription)
         THEN run' = [run EXCEPT ![p] =
                        [r EXCEPT !.pc = "IsFoodImage",
                                  !.imageDescription = imageDescription]]
         ELSE run' = [run EXCEPT ![p] =
                        [r EXCEPT !.pc = AfterClassification(
                                             IsFoodFromDescription(imageDescription)),
                                  !.imageDescription = imageDescription,
                                  !.isFood = IsFoodFromDescription(imageDescription),
                                  !.description = imageDescription]]

\* The live classification: IsFoodImage of the endpoint's client.
Classify(p) ==
    /\ run[p].pc = "IsFoodImage"
    /\ UNCHANGED <<recipes, image_metadata, started>>
    /\ \E resp \in ModelAnswers(Descriptions, run[p].expired) :
         LET res == IsFoodImage(run[p].endpoint, resp)
             r == [Called(run[p], "IsFoodImage", res.err) EXCEPT
                      !.expired = @ \/ resp.err = "deadline",
                      !.reqs = Append(@, "classify")]
         IN
         IF res.err # "nil"
         THEN run' = [run EXCEPT ![p] =
                        Returned(r, OnIsFoodImageError(run[p].endpoint, res.err))]
         ELSE run' = [run EXCEPT ![p] =
                        [r EXCEPT !.pc = "SaveImageMetadata",
                                  !.isFood = res.isFood,
                                  !.description = res.description]]

\* SaveImageMetadata of the live description; its error is logged only.
PersistClassification(p) ==
    /\ run[p].pc = "SaveImageMetadata"
    /\ UNCHANGED <<recipes, started>>
    /\ \E saveErr \in StoreErrors(run[p].expired) :
         LET next == AfterSaveImageMetadata(saveErr, run[p].isFood)
             r == [Called(run[p], "SaveImageMetadata", run[p].err) EXCEPT
                      !.expired = @ \/ saveErr = "deadline",
                      !.saveErr = saveErr,
                      !.pc = next.pc,
                      !.status = next.resp.status,
                      !.body = next.resp.body]
         IN
         /\ run' = [run EXCEPT ![p] = r]
         /\ image_metadata' =
              IF saveErr = "nil"
              THEN SaveImageMetadata(image_metadata, run[p].imageHash, run[p].description)
              ELSE image_metadata

\* Not food: saveNonFoodImage, whose error is logged only, and the rejection.
ArchiveNonFood(p) ==
    /\ run[p].pc = "saveNonFoodImage"
    /\ UNCHANGED <<recipes, image_metadata, started>>
    /\ \E saveErr \in SaveImageErrors(run[p].imageData) :
         run' = [run EXCEPT ![p] =
                   Returned([Called(run[p], "saveNonFoodImage", run[p].err) EXCEPT
                                !.saveErr = saveErr],
                            AfterSaveNonFoodImage(saveErr))]

\* GetRecipeByImageHash: a stored recipe is returned as it is.
RecipeLookup(p) ==
    /\ run[p].pc = "GetRecipeByImageHash"
    /\ UNCHANGED <<recipes, image_metadata, started>>
    /\ \E err \in StoreErrors(run[p].expired) :
         LET r == [Called(run[p], "GetRecipeByImageHash", err) EXCEPT
                      !.expired = @ \/ err = "deadline"]
             recipe == GetRecipeByImageHash(recipes, run[p].imageHash)
         IN
         IF err # "nil"
         THEN run' = [run EXCEPT ![p] = Returned(r, OnGetRecipeError(err))]
         ELSE IF recipe # Nil
         THEN run' = [run EXCEPT ![p] =
                        Returned([r EXCEPT !.recipe = recipe],
                                 [status |-> 200, body |-> recipe])]
         ELSE run' = [run EXCEPT ![p] = [r EXCEPT !.pc = "GenerateRecipe"]]

\* GenerateRecipe of the endpoint's client with the request's parameters.
Generate(p, texts) ==
    /\ run[p].pc = "GenerateRecipe"
    /\ UNCHANGED <<recipes, image_metadata, started>>
    /\ \E classResp \in ModelAnswers(Descriptions, run[p].expired) :
         LET \* the Gemini client's food check runs under the same context
             genExpired == \/ run[p].expired
                           \/ run[p].endpoint = "Upload" /\ classResp.err = "deadline"
         IN
         \E genResp \in ModelAnswers(texts, genExpired) :
           LET args == GenerateRecipeArgs(run[p].dietaryPreference, run[p].cuisine)
               res == GenerateRecipe(run[p].endpoint, classResp, genResp,
                                     args.dietaryPreference, args.cuisine)
               sent == {res.reqs[i] : i \in DOMAIN res.reqs}
               r == [Called(run[p], "GenerateRecipe", res.err) EXCEPT
                        !.expired = @ \/ res.err = "deadline",
                        !.reqs = @ \o res.reqs,
                        !.genText = IF "generate" \in sent THEN genResp.text ELSE <<>>,
                        !.receivedDietaryPreference = args.dietaryPreference,
                        !.receivedCuisine = args.cuisine]
           IN
           \* an answer to a request that was not sent is no choice
           /\ "classify" \notin sent
                  => classResp = CHOOSE c \in ModelAnswers(Descriptions, run[p].expired) : TRUE
           /\ "generate" \notin sent
                  => genResp = CHOOSE g \in ModelAnswers(texts, genExpired) : TRUE
           /\ IF res.err # "nil"
              THEN run' = [run EXCEPT ![p] =
                             Returned(r, OnGenerateRecipeError(run[p].endpoint, res.err))]
              ELSE run' = [run EXCEPT ![p] =
                             [r EXCEPT !.pc = "saveImage", !.recipe = res.recipe]]

\* saveImage, then recipe.ImagePath = imagePath.
ArchiveImage(p) ==
    /\ run[p].pc = "saveImage"
    /\ UNCHANGED <<recipes, image_metadata, started>>
    /\ \E err \in SaveImageErrors(run[p].imageData) :
         LET r == Called(run[p], "saveImage", err)
             imagePath == ImagePath("images", run[p].imageHash, run[p].extension)
         IN
         IF AfterSaveImage(err) = "done"
         THEN run' = [run EXCEPT ![p] = Returned(r, OnSaveImageError(err))]
         ELSE run' = [run EXCEPT ![p] =
                        [r EXCEPT !.pc = AfterSaveImage(err),
                                  !.recipe.ImagePath = IF err = "nil" THEN imagePath ELSE <<>>]]

\* recipe.ImageHash = imageHash, SaveRecipe, and the recipe as the response.
PersistRecipe(p) ==
    /\ run[p].pc = "SaveRecipe"
    /\ UNCHANGED <<image_metadata, started>>
    /\ \E err \in StoreErrors(run[p].expired) :
         LET recipe == [run[p].recipe EXCEPT !.ImageHash = run[p].imageHash]
             r == [Called(run[p], "SaveRecipe", err) EXCEPT
                      !.expired = @ \/ err = "deadline",
                      !.recipe = recipe]
         IN
         IF err # "nil"
         THEN /\ run' = [run EXCEPT ![p] = Returned(r, OnSaveRecipeError(err))]
              /\ recipes' = recipes
         ELSE /\ run' = [run EXCEPT ![p] =
                           Returned(r, [status |-> 200, body |-> recipe])]
              /\ recipes' = SaveRecipe(recipes, recipe)

\* The calls of a request that is being served.
Serve(p, texts) ==
    \/ ClassificationLookup(p)
    \/ Classify(p)
    \/ PersistClassification(p)
    \/ ArchiveNonFood(p)
    \/ RecipeLookup(p)
    \/ Generate(p, texts)
    \/ ArchiveImage(p)
    \/ PersistRecipe(p)

\* Requests served one after the other: a request arrives when the one
\* before it has been answered.
Next ==
    \/ Start("p1", Queries, Images)
    \/ Serve("p1", RecipeTexts)

Spec == Init /\ [][Next]_vars

\* Two requests served at the same time, each by its own goroutine; their
\* calls interleave in any order.
ConcQueries ==
    { [dietary_preference |-> <<"v", "e", "g">>, cuisine |-> <<>>],
      [dietary_preference |-> <<"K", "e", "t">>, cuisine |-> <<"I", "t">>] }

\* The model's answers to the recipe prompt in those two requests.
ConcRecipeTexts == {<<"{", "B1", "}">>, <<"{", "B2", "}">>, <<"prose">>}

\* Both requests carry the same picture.
ConcImages == {<<1>>}

ConcNext ==
    \E p \in Procs :
        \/ run[p].pc = "idle" /\ Start(p, ConcQueries, ConcImages)
        \/ Serve(p, ConcRecipeTexts)

ConcSpec == Init /\ [][ConcNext]_vars

\* Requests served one after the other, with the fewer queries and answers of
\* the concurrent requests.  Every call the handler makes returns, with its
\* result or cancelled by the context's deadline, and the goroutine goes on:
\* a request that is being served takes its next step.
FairNext ==
    \/ Start("p1", ConcQueries, Images)
    \/ Serve("p1", ConcRecipeTexts)

FairSpec == Init /\ [][FairNext]_vars /\ WF_vars(Serve("p1", ConcRecipeTexts))

\* --------------------------------------------------------- query handlers

\* GetRecipes and GetRecipe on an error of their store call
OnQueryError(err) ==
    IF err = "deadline"
    THEN Response(408, "Database query timed out after 5 seconds", err)
    ELSE Response(500, "database error", err)

\* GetImageDescription on an error of GetImageMetadata
OnGetImageDescriptionError(err) == Response(500, "database error", err)

\* GetRecipe answering 200 whatever the lookup found.
GetRecipeResponseUnchecked(recipe) == [status |-> 200, body |-> recipe]

\* GetRecipe after a lookup without error
GetRecipeResponse(recipe) ==
    IF recipe = Nil
    THEN Response(404, "Recipe not found", "nil")
    ELSE [status |-> 200, body |-> recipe]

\* GetImageDescription after a lookup without error
GetImageDescriptionResponse(description) ==
    IF description = <<>>
    THEN Response(404, "Description not found for this image hash", "nil")
    ELSE [status |-> 200, body |-> [description |-> description]]

\* The locals of a query handler that has returned.
Answered(endpoint, call, err, resp) ==
    [IdleRun EXCEPT !.endpoint = endpoint, !.calls = <<call>>, !.err = err,
                    !.pc = "done", !.status = resp.status, !.body = resp.body]

\* The pictures, the hashes and the filters of the query requests.
QueryImages == {<<1>>, <<2>>}

QueryHashes == {GenerateImageHash(b) : b \in QueryImages}

ListFilters ==
    { [cuisine |-> <<>>, dietary_preference |-> <<>>],
      [cuisine |-> <<"i", "t">>, dietary_preference |-> <<>>],
      [cuisine |-> <<>>, dietary_preference |-> <<"v", "e", "g">>],
      [cuisine |-> <<"i", "t">>, dietary_preference |-> <<"v", "e", "g">>] }

\* A query request may arrive when no request is being served.
QueryArrives(p) ==
    /\ run[p].pc \in {"idle", "done"}
    /\ started < MaxRuns
    /\ started' = started + 1
    /\ UNCHANGED <<recipes, image_metadata>>

\* GET /recipes
GetRecipes(p) ==
    /\ QueryArrives(p)
    /\ \E filter \in ListFilters, err \in StoreErrors(FALSE) :
         LET found == GetRecipesByCuisineOrDietaryPreference(
                          recipes, filter.cuisine, filter.dietary_preference)
             resp == IF err # "nil" THEN OnQueryError(err)
                     ELSE [status |-> 200, body |-> [recipes |-> found]]
         IN run' = [run EXCEPT ![p] =
                      [Answered("GetRecipes", "GetRecipesByCuisineOrDietaryPreference",
                                err, resp)
                         EXCEPT !.cuisine = filter.cuisine,
                                !.dietaryPreference = filter.dietary_preference]]

\* GET /recipes/:image_hash
GetRecipe(p) ==
    /\ QueryArrives(p)
    /\ \E imageHash \in QueryHashes, err \in StoreErrors(FALSE) :
         LET resp == IF err # "nil" THEN OnQueryError(err)
                     ELSE GetRecipeResponse(GetRecipeByImageHash(recipes, imageHash))
         IN run' = [run EXCEPT ![p] =
                      [Answered("GetRecipe", "GetRecipeByImageHash", err, resp)
                         EXCEPT !.imageHash = imageHash]]

\* GET /image-metadata/:image_hash
GetImageDescription(p) ==
    /\ QueryArrives(p)
    /\ \E imageHash \in QueryHashes, err \in StoreErrors(FALSE) :
         LET resp == IF err # "nil" THEN OnGetImageDescriptionError(err)
                     ELSE GetImageDescriptionResponse(
                              GetImageMetadata(image_metadata, imageHash))
         IN run' = [run EXCEPT ![p] =
                      [Answered("GetImageDescription", "GetImageMetadata", err, resp)
                         EXCEPT !.imageHash = imageHash]]

\* The model's answers to the recipe prompt in the uploads before the queries.
QueryRecipeTexts == {<<"{", "B1", "}">>}

\* Uploads and queries served one after the other.
QueryNext ==
    \/ Start("p1", ConcQueries, QueryImages)
    \/ Serve("p1", QueryRecipeTexts)
    \/ GetRecipes("p1")
    \/ GetRecipe("p1")
    \/ GetImageDescription("p1")

QuerySpec == Init /\ [][QueryNext]_vars

\* ------------------------------------------------- direct local endpoints

\* IsFood and RecipeFinderLocal answering every error of the local client
OnLocalLLMError(err) == Response(500, "local llm err", err)

\* IsFood storing the description it got, as UploadV2 does.
MetadataAfterIsFoodSaved(table, imageData, description) ==
    SaveImageMetadata(table, GenerateImageHash(imageData), description)

\* The classification table after IsFood: the handler has no store call.
MetadataAfterIsFood(table, imageData, description) == table

\* The recipe table after RecipeFinderLocal: the handler has no store call.
RecipesAfterRecipeFinderLocal(table, imageData, recipe) == table

\* What FormFile, Open and ReadAll of the two handlers may fail with.
FormErrors == {"nil", "form", "open", "read"}

OnFormError(form) ==
    CASE form = "form" -> Response(400, "get form err", form)
      [] form = "open" -> Response(500, "open file err", form)
      [] form = "read" -> Response(500, "read image err", form)

\* A request to a direct endpoint may arrive when no request is being served.
DirectArrives(p) ==
    /\ run[p].pc \in {"idle", "done"}
    /\ started < MaxRuns
    /\ started' = started + 1

\* POST /is-food
IsFood(p) ==
    /\ DirectArrives(p)
    /\ \E form \in FormErrors, imageData \in Images,
          resp \in ModelAnswers(Descriptions, FALSE) :
         LET r0 == [IdleRun EXCEPT !.endpoint = "IsFood"]
             res == LocalIsFoodImage(resp)
             r == [Called([r0 EXCEPT !.imageData = imageData], "IsFoodImage", res.err)
                     EXCEPT !.reqs = <<"classify">>,
                            !.expired = resp.err = "deadline"]
         IN
         IF form # "nil"
         THEN /\ run' = [run EXCEPT ![p] = Returned(r0, OnFormError(form))]
              /\ UNCHANGED <<recipes, image_metadata>>
         ELSE IF res.err # "nil"
         THEN /\ run' = [run EXCEPT ![p] = Returned(r, OnLocalLLMError(res.err))]
              /\ UNCHANGED <<recipes, image_metadata>>
         ELSE /\ run' = [run EXCEPT ![p] =
                           Returned([r EXCEPT !.isFood = res.isFood,
                                              !.description = res.description],
                                    [status |-> 200,
                                     body |-> [is_food |-> res.isFood,
                                               description |-> res.description]])]
              /\ image_metadata' =
                     MetadataAfterIsFood(image_metadata, imageData, res.description)
              /\ recipes' = recipes

\* POST /recipe-finder-local
RecipeFinderLocal(p) ==
    /\ DirectArrives(p)
    /\ \E form \in FormErrors, query \in ConcQueries, imageData \in Images,
          genResp \in ModelAnswers(ConcRecipeTexts, FALSE) :
         LET r0 == [IdleRun EXCEPT !.endpoint = "RecipeFinderLocal"]
             res == LocalGenerateRecipe(genResp, query.dietary_preference, query.cuisine)
             r == [Called([r0 EXCEPT !.imageData = imageData,
                                     !.dietaryPreference = query.dietary_preference,
                                     !.cuisine = query.cuisine],
                          "GenerateRecipe", res.err)
                     EXCEPT !.reqs = res.reqs,
                            !.expired = genResp.err = "deadline",
                            !.genText = genResp.text]
         IN
         IF form # "nil"
         THEN /\ run' = [run EXCEPT ![p] = Returned(r0, OnFormError(form))]
              /\ UNCHANGED <<recipes, image_metadata>>
         ELSE IF res.err # "nil"
         THEN /\ run' = [run EXCEPT ![p] = Returned(r, OnLocalLLMError(res.err))]
              /\ UNCHANGED <<recipes, image_metadata>>
         ELSE /\ run' = [run EXCEPT ![p] =
                           Returned([r EXCEPT !.recipe = res.recipe],
                                    [status |-> 200, body |-> res.recipe])]
              /\ recipes' = RecipesAfterRecipeFinderLocal(recipes, imageData, res.recipe)
              /\ image_metadata' = image_metadata

\* Uploads and requests to the direct endpoints served one after the other.
DirectNext ==
    \/ Start("p1", ConcQueries, ConcImages)
    \/ Serve("p1", QueryRecipeTexts)
    \/ IsFood("p1")
    \/ RecipeFinderLocal("p1")

DirectSpec == Init /\ [][DirectNext]_vars

\* ------------------------------------------------------------------ claims

Range(s) == {s[i] : i \in DOMAIN s}

LastCall(r) == IF r.calls = <<>> THEN "none" ELSE r.calls[Len(r.calls)]

\* The "no"-prefix rule of the specification: trim, lower-case, test prefix "no".
DerivedIsFood(description) ==
    LET t == ToLower(TrimSpace(description)) IN
    ~(Len(t) >= 2 /\ t[1] = "n" /\ t[2] = "o")

ClassificationCalls == {"GetImageMetadata", "IsFoodImage", "SaveImageMetadata"}

RecipeCalls == {"GetRecipeByImageHash", "GenerateRecipe", "SaveRecipe"}

\* The classification stage of the run has produced isFood: from the cache
\* (a non-empty description was read) or live (the description went on to
\* SaveImageMetadata).
ClassificationComplete(r) ==
    r.imageDescription # <<>> \/ "SaveImageMetadata" \in Range(r.calls)

\* The outcomes of a run that has returned.
Rejected(r) ==
    r.pc = "done" /\ r.status = 200 /\ r.body = [msg |-> RejectedMessage, err |-> "nil"]

RecipeReady(r) == r.pc = "done" /\ r.status = 200 /\ r.recipe # Nil /\ r.body = r.recipe

Timeout(r) == r.pc = "done" /\ r.status = 408

Failed(r) == r.pc = "done" /\ r.status \in {408, 500}

StoredRecipes(imageHash) == {row \in recipes : row.ImageHash = imageHash}

\* C1: once a classification is persisted for the image, a later run sends no
\* classification request to the model at all (not from the handler, not from
\* inside GenerateRecipe), and its isFood is the "no"-prefix rule applied to
\* the stored description, whatever that description is (the empty one too).
C1_CachedClassificationIsReused ==
    \A p \in Procs :
        LET r == run[p] IN
        r.metadataAtStart # {} =>
            /\ "classify" \notin Range(r.reqs)
            /\ "IsFoodImage" \notin Range(r.calls)
            /\ ClassificationComplete(r) =>
                 \A row \in r.metadataAtStart : r.isFood = DerivedIsFood(row.description)

\* C2: with either client, the isFood that IsFoodImage returns for a
\* description is the "no"-prefix rule applied to that description.
C2_LiveIsFoodFollowsPrefixRule ==
    \A p \in Procs :
        LET r == run[p] IN
        ("IsFoodImage" \in Range(r.calls) /\ r.err = "nil" /\ r.pc # "done")
            => r.isFood = DerivedIsFood(r.description)

\* C3: the recipe lookup, GenerateRecipe and SaveRecipe of a run come only
\* after its classification stage has completed with isFood = TRUE; a run
\* classified as not food (from the cache or live) makes none of them and
\* ends Rejected.
C3_RecipeStageOnlyAfterFoodClassification ==
    \A p \in Procs :
        LET r == run[p] IN
        /\ \A i \in DOMAIN r.calls :
             r.calls[i] \in RecipeCalls =>
                /\ r.isFood
                /\ ClassificationComplete(r)
                /\ \A j \in DOMAIN r.calls : r.calls[j] \in ClassificationCalls => j < i
        /\ r.pc \in RecipeCalls => r.isFood /\ ClassificationComplete(r)
        /\ (ClassificationComplete(r) /\ ~r.isFood) =>
                /\ r.pc \in {"saveNonFoodImage", "done"}
                /\ Range(r.calls) \cap RecipeCalls = {}
                /\ "generate" \notin Range(r.reqs)
                /\ r.pc = "done" => Rejected(r)

\* A run that found isFood = FALSE in the cache has ended Rejected.
C3_Witness ==
    \E p \in Procs :
        /\ run[p].metadataAtStart # {}
        /\ ClassificationComplete(run[p])
        /\ ~run[p].isFood
        /\ Rejected(run[p])

\* C4: when GenerateRecipe returns a recipe for a food image without a cached
\* recipe, the run ends RecipeReady (200), the table holds that recipe under
\* the image's hash, and it is the response.
C4_ValidRecipeIsStoredAndReturned ==
    \A p \in Procs :
        LET r == run[p] IN
        (r.pc = "done" /\ "GenerateRecipe" \in Range(r.calls) /\ r.recipe # Nil) =>
            /\ r.status = 200
            /\ r.body = r.recipe
            /\ r.recipe.ImageHash = r.imageHash
            /\ StoredRecipes(r.imageHash) = {r.recipe}

\* C5 as stated: in non-overlapping runs, once a recipe is stored for the
\* image, every later run that classifies it as food returns that stored
\* recipe, whatever its dietary_preference and cuisine, and GenerateRecipe and
\* SaveRecipe are not called again.
C5_LaterFoodRunReturnsStoredRecipe ==
    \A p \in Procs :
        LET r == run[p] IN
        r.recipeAtStart # {} =>
            /\ Range(r.calls) \cap {"GenerateRecipe", "SaveRecipe"} = {}
            /\ (r.pc = "done" /\ ClassificationComplete(r) /\ r.isFood) =>
                   r.status = 200 /\ {r.body} = r.recipeAtStart

\* C5 as amended: in non-overlapping runs, once a recipe is stored for the
\* image, a later run never calls GenerateRecipe or SaveRecipe and leaves the
\* stored recipe as it is; a later run that classifies the image as food
\* returns the stored recipe, whatever its dietary_preference and cuisine,
\* unless its recipe lookup fails, and then it ends 408 or 500.
C5_StoredRecipeReturnedUnlessLookupFails ==
    \A p \in Procs :
        LET r == run[p] IN
        r.recipeAtStart # {} =>
            /\ Range(r.calls) \cap {"GenerateRecipe", "SaveRecipe"} = {}
            /\ "generate" \notin Range(r.reqs)
            /\ StoredRecipes(r.imageHash) = r.recipeAtStart
            /\ (r.pc = "done" /\ ClassificationComplete(r) /\ r.isFood) =>
                   /\ LastCall(r) = "GetRecipeByImageHash"
                   /\ r.err = "nil" => r.status = 200 /\ {r.body} = r.recipeAtStart
                   /\ r.err # "nil" => r.status \in {408, 500}

\* A request for "Ket" is answered with the recipe stored for "veg".
C5_Witness ==
    \E p \in Procs :
        /\ run[p].recipeAtStart # {}
        /\ RecipeReady(run[p])
        /\ {run[p].body} = run[p].recipeAtStart
        /\ run[p].dietaryPreference = <<"K", "e", "t">>
        /\ run[p].body.DietaryPreference = <<"v", "e", "g">>

\* The step is a successful SaveRecipe of p.
SavesRecipe(p) ==
    run[p].pc = "SaveRecipe" /\ run'[p].pc = "done" /\ run'[p].err = "nil"

\* C6: when two runs for the same bytes both miss both caches, both ask the
\* model and both call SaveRecipe, the table afterwards holds one recipe for
\* the hash, which is in every field the recipe of the SaveRecipe that ran
\* last: each successful SaveRecipe leaves exactly its own recipe under the
\* hash, and no other step changes the table.
C6_LastSaveRecipeWins ==
    [][ /\ \A p \in Procs :
             SavesRecipe(p) =>
                /\ {row \in recipes' : row.ImageHash = run[p].imageHash} = {run'[p].recipe}
                /\ {row \in recipes' : row.ImageHash # run[p].imageHash}
                     = {row \in recipes : row.ImageHash # run[p].imageHash}
        /\ (\A p \in Procs : ~SavesRecipe(p)) => recipes' = recipes
      ]_vars

\* Two overlapping runs for the same bytes both missed both caches, both asked
\* the model, both saved, with different recipes; the table holds one of them.
C6_Witness ==
    /\ run["p1"].imageHash = run["p2"].imageHash
    /\ run["p1"].recipe # run["p2"].recipe
    /\ \A p \in Procs :
         /\ run[p].metadataAtStart = {} /\ run[p].recipeAtStart = {}
         /\ {"classify", "generate"} \subseteq Range(run[p].reqs)
         /\ LastCall(run[p]) = "SaveRecipe" /\ run[p].err = "nil"
         /\ RecipeReady(run[p])
    /\ Cardinality(StoredRecipes(run["p1"].imageHash)) = 1
    /\ StoredRecipes(run["p1"].imageHash) \subseteq {run["p1"].recipe, run["p2"].recipe}

\* C7: when the deadline elapses during the classification lookup or during
\* IsFoodImage, the run ends with the timeout outcome (408), and makes no
\* recipe lookup, generation or save.
C7_DeadlineInClassificationIsTimeout ==
    \A p \in Procs :
        LET r == run[p] IN
        (r.pc = "done" /\ r.err = "deadline"
            /\ LastCall(r) \in {"GetImageMetadata", "IsFoodImage"}) =>
            /\ Timeout(r)
            /\ Range(r.calls) \cap RecipeCalls = {}

\* C8: when SaveRecipe fails after GenerateRecipe succeeded, the run ends
\* Failed, the response is not the recipe, and the table holds no recipe for
\* the image afterwards.
C8_SaveRecipeFailureIsFatal ==
    \A p \in Procs :
        LET r == run[p] IN
        (LastCall(r) = "SaveRecipe" /\ r.err # "nil") =>
            /\ "GenerateRecipe" \in Range(r.calls)
            /\ Failed(r)
            /\ r.body # r.recipe
            /\ StoredRecipes(r.imageHash) = {}

\* SaveRecipe has failed with a database error.
C8_Witness ==
    \E p \in Procs :
        /\ LastCall(run[p]) = "SaveRecipe"
        /\ run[p].err = "db"
        /\ run[p].recipe # Nil
        /\ run[p].pc = "done"

\* C9: SaveImageMetadata failing after a live classification changes nothing
\* in what the run does next: with the client's isFood it goes on to the
\* rejection or to the recipe lookup, as after a successful write, and it does
\* not end with that write.
C9_MetadataSaveFailureIsSwallowed ==
    \A p \in Procs :
        LET r == run[p] IN
        "SaveImageMetadata" \in Range(r.calls) =>
            /\ r.isFood = IsFoodImage(r.endpoint, [err |-> "nil", text |-> r.description]).isFood
            /\ LastCall(r) = "SaveImageMetadata" =>
                   /\ r.status = 0
                   /\ r.pc = IF r.isFood THEN "GetRecipeByImageHash" ELSE "saveNonFoodImage"
            /\ (r.pc = "done" /\ ~r.isFood) => Rejected(r)
            /\ (r.pc = "done" /\ r.isFood) => "GetRecipeByImageHash" \in Range(r.calls)

\* After a failed SaveImageMetadata one run has ended Rejected, or RecipeReady.
C9_Witness ==
    \E p \in Procs :
        /\ run[p].saveErr = "db"
        /\ "SaveImageMetadata" \in Range(run[p].calls)
        /\ RecipeReady(run[p])
        /\ LastCall(run[p]) = "SaveRecipe"

\* C10: no store failure of the classification stage ends the run: a run that
\* ends Failed in the classification stage ends so on a failure of the model
\* call or on the deadline, never on a failure of GetImageMetadata or of
\* SaveImageMetadata.
C10_ClassificationStoreFailureIsNotFatal ==
    \A p \in Procs :
        LET r == run[p] IN
        (Failed(r) /\ LastCall(r) \in ClassificationCalls) =>
            (LastCall(r) = "IsFoodImage" \/ r.err = "deadline")

\* The text holds no "{" with a "}" after it.
NoBracePair(text) ==
    ~ \E i, j \in DOMAIN text : i < j /\ text[i] = "{" /\ text[j] = "}"

\* The run's last call was GenerateRecipe and the model answered its recipe
\* prompt with a text.
ModelAnsweredRecipePrompt(r) ==
    LastCall(r) = "GenerateRecipe" /\ r.genText # <<>>

EndedOnGenerateRecipe(r, errs) ==
    r.pc = "done" /\ LastCall(r) = "GenerateRecipe" /\ r.err \in errs

\* The kind of a response: its status and the fixed part of its text, without
\* the err.Error() that the handler appends.
Kind(r) == <<r.status, r.body.msg>>

\* C12: with either client, a run that ended on a transport/API failure of
\* the model call and a run that ended on a malformed answer of the model
\* have responses of different kinds.
C12_TransportAndMalformedAreDistinctKinds ==
    \A p, q \in Procs :
        ( /\ run[p].endpoint = run[q].endpoint
          /\ EndedOnGenerateRecipe(run[p], {"transport"})
          /\ EndedOnGenerateRecipe(run[q], {"nojson", "unmarshal"}) )
            => Kind(run[p]) # Kind(run[q])

\* Where the text holds a recipe object.
ObjectsIn(text) ==
    {i \in 1..(Len(text) - 2) :
        text[i] = "{" /\ text[i + 1] \in BodyNames /\ text[i + 2] = "}"}

\* Prose, white space and the Markdown fences.
Surroundings == {"prose", " ", "\n", "fence_json", "fence"}

\* The text is one recipe object with prose, white space or fences around it.
HoldsOneObject(text) ==
    /\ Cardinality(ObjectsIn(text)) = 1
    /\ \A j \in DOMAIN text :
         (\A i \in ObjectsIn(text) : j < i \/ j > i + 2) => text[j] \in Surroundings

\* C13: with either client, when the model answers the recipe prompt with one
\* valid recipe object surrounded by prose, white space or Markdown fences,
\* GenerateRecipe returns no error and the recipe of that object.
C13_ObjectInProseOrFencesIsParsed ==
    \A p \in Procs :
        LET r == run[p] IN
        ( /\ "GenerateRecipe" \in Range(r.calls)
          /\ r.genText # <<>>
          /\ HoldsOneObject(r.genText) ) =>
            /\ LastCall(r) = "GenerateRecipe" => r.err = "nil"
            /\ r.recipe # Nil
            /\ \A i \in ObjectsIn(r.genText) :
                 LET o == JSONObject(r.genText[i + 1]) IN
                 /\ r.recipe.Title = o.title
                 /\ r.recipe.Ingredients = o.ingredients
                 /\ r.recipe.Instructions = o.instructions
                 /\ r.recipe.ShoppingCart = o.shopping_cart

\* C14: a classification that is stored is never changed: every row of
\* image_metadata stays as it is in every step of every interleaving of runs.
C14_StoredDescriptionNeverChanges ==
    [][\A row \in image_metadata : row \in image_metadata']_vars

\* The recipe's cuisine and dietary preference are in lower case.
IsLowercased(recipe) ==
    /\ recipe.Cuisine = ToLower(recipe.Cuisine)
    /\ recipe.DietaryPreference = ToLower(recipe.DietaryPreference)

\* C15: every recipe that GenerateRecipe of either client returned, and every
\* recipe in the table, has its cuisine and dietary preference in lower case,
\* whatever the request's cuisine and dietary_preference are.
C15_CuisineAndDietaryPreferenceAreLowercase ==
    /\ \A row \in recipes : IsLowercased(row)
    /\ \A p \in Procs : run[p].recipe # Nil => IsLowercased(run[p].recipe)

\* The stage of a run, by the call it makes next.
Phase(pc) ==
    CASE pc = "idle" -> "Start"
      [] pc \in ClassificationCalls -> "Classifying"
      [] pc = "saveNonFoodImage" -> "Rejecting"
      [] pc \in RecipeCalls \cup {"saveImage"} -> "Resolving"
      [] pc = "done" -> "Terminal"

\* The steps between stages: a request arrives (and may be refused at once),
\* classification ends in rejection, in recipe resolution or in an error, and
\* recipe resolution ends in a recipe or in an error.
PhaseSteps ==
    { <<"Start", "Classifying">>, <<"Start", "Terminal">>,
      <<"Terminal", "Classifying">>, <<"Terminal", "Terminal">>,
      <<"Classifying", "Classifying">>, <<"Classifying", "Rejecting">>,
      <<"Classifying", "Resolving">>, <<"Classifying", "Terminal">>,
      <<"Rejecting", "Terminal">>,
      <<"Resolving", "Resolving">>, <<"Resolving", "Terminal">> }

\* The run has returned an error response.
ErrorOutcome(r) == r.pc = "done" /\ r.status \in {400, 408, 500} /\ r.body # r.recipe

\* A response has been written exactly when the run has returned, and a run
\* that has returned has exactly one of the three outcomes.
OneOutcome(r) ==
    /\ (r.status # 0) <=> (r.pc = "done")
    /\ r.pc = "done" =>
         Cardinality({o \in {"Rejected", "RecipeReady", "Failed"} :
            \/ o = "Rejected" /\ Rejected(r)
            \/ o = "RecipeReady" /\ RecipeReady(r)
            \/ o = "Failed" /\ ErrorOutcome(r)}) = 1

\* A step of p keeps to the stage order; a run that has returned changes
\* nothing any more until the next request arrives; rejection comes only from
\* the rejecting stage and a recipe only from the resolving stage.
OrderedStep(p) ==
    run'[p] # run[p] =>
        /\ <<Phase(run[p].pc), Phase(run'[p].pc)>> \in PhaseSteps
        /\ run[p].pc = "done" => started' = started + 1
        /\ (run[p].pc # "done" /\ Rejected(run'[p])) => Phase(run[p].pc) = "Rejecting"
        /\ (run[p].pc # "done" /\ RecipeReady(run'[p])) => Phase(run[p].pc) = "Resolving"

\* C16: a run goes Start -> Classifying -> {Rejected | Classified} ->
\* Resolving -> {RecipeReady | Failed}; it writes one response, when it
\* returns, with exactly one of the outcomes Rejected, RecipeReady, Failed,
\* and does nothing after it; and, every call returning, a run that is being
\* served does return.
C16_RunReachesExactlyOneOutcome ==
    /\ [](\A p \in Procs : OneOutcome(run[p]))
    /\ [][\A p \in Procs : OrderedStep(p)]_vars
    /\ \A p \in Procs : (run[p].pc \notin {"idle", "done"}) ~> (run[p].pc = "done")

\* A run went through every call of both stages and returned the recipe.
C16_Witness ==
    \E p \in Procs :
        /\ run[p].calls = <<"GetImageMetadata", "IsFoodImage", "SaveImageMetadata",
                            "GetRecipeByImageHash", "GenerateRecipe", "saveImage",
                            "SaveRecipe">>
        /\ RecipeReady(run[p])

\* The body that TestUpload_NotFoodImage expects.
NotFoodMessage == "We need to find something delicious! Please provide an image full of food."

\* C17: when the Gemini client reports ErrNotFoodImage, Upload answers 400
\* with the body "We need to find something delicious! Please provide an
\* image full of food.", and no recipe is stored for the image.
C17_NotFoodIs400WithMessage ==
    \A p \in Procs :
        LET r == run[p] IN
        (r.endpoint = "Upload" /\ LastCall(r) = "GenerateRecipe" /\ r.err = "notfood") =>
            /\ r.pc = "done"
            /\ r.status = 400
            /\ r.body # Nil /\ r.body.msg = NotFoodMessage
            /\ StoredRecipes(r.imageHash) = r.recipeAtStart

\* The run is a query of the given handler that has returned.
QueryDone(r, endpoint) == r.endpoint = endpoint /\ r.pc = "done"

\* C18: a listing that succeeds returns exactly the stored recipes whose
\* cuisine is the cuisine filter, unless that filter is empty, and whose
\* dietary preference is the dietary filter, unless that filter is empty:
\* every recipe with both filters empty, and with both set only the recipes
\* that match both.
C18_ListingFiltersAreConjoined ==
    \A p \in Procs :
        LET r == run[p] IN
        (QueryDone(r, "GetRecipes") /\ r.err = "nil") =>
            /\ r.status = 200
            /\ r.body.recipes =
                 {row \in recipes :
                     /\ (r.cuisine = <<>> \/ row.Cuisine = r.cuisine)
                     /\ (r.dietaryPreference = <<>>
                            \/ row.DietaryPreference = r.dietaryPreference)}
            /\ (r.cuisine = <<>> /\ r.dietaryPreference = <<>>) => r.body.recipes = recipes

\* A listing with both filters set returned one recipe and left out a stored
\* recipe that matches the dietary filter only.
C18_Witness ==
    \E p \in Procs :
        LET r == run[p] IN
        /\ QueryDone(r, "GetRecipes") /\ r.err = "nil"
        /\ r.cuisine # <<>> /\ r.dietaryPreference # <<>>
        /\ r.body.recipes # {}
        /\ \E row \in recipes \ r.body.recipes :
             row.DietaryPreference = r.dietaryPreference /\ row.Cuisine # r.cuisine

\* The three handlers that only read the store.
QueryEndpoints == {"GetRecipes", "GetRecipe", "GetImageDescription"}

\* C19: when the 5-second deadline elapses during the store call of
\* GetRecipe, GetRecipes or GetImageDescription, the handler answers with the
\* timeout outcome (408), not with the generic error.
C19_QueryDeadlineIsTimeout ==
    \A p \in Procs :
        LET r == run[p] IN
        (r.endpoint \in QueryEndpoints /\ r.pc = "done" /\ r.err = "deadline")
            => r.status = 408

\* The step is a query of p being answered.
QueryStep(p) == run'[p] # run[p] /\ run'[p].endpoint \in QueryEndpoints

\* A query sends nothing to the model, makes one store call, a read, and
\* leaves both tables as they are.
QueriesOnlyRead ==
    \A p \in Procs :
        QueryStep(p) =>
            /\ recipes' = recipes
            /\ image_metadata' = image_metadata
            /\ run'[p].reqs = <<>>
            /\ run'[p].calls \in {<<"GetRecipesByCuisineOrDietaryPreference">>,
                                  <<"GetRecipeByImageHash">>, <<"GetImageMetadata">>}

\* C20 as stated: the three queries are pure reads, and GetRecipe answers
\* NotFound exactly when no recipe is stored for the hash and otherwise
\* returns the stored recipe.
C20_QueriesArePureAndGetRecipeFinds ==
    /\ [][QueriesOnlyRead]_vars
    /\ [](\A p \in Procs :
            LET r == run[p] IN
            QueryDone(r, "GetRecipe") =>
                /\ (r.status = 404) <=> (StoredRecipes(r.imageHash) = {})
                /\ StoredRecipes(r.imageHash) # {} =>
                       r.status = 200 /\ {r.body} = StoredRecipes(r.imageHash))

\* C20 as amended: the three queries are pure reads for every input and
\* outcome; when its store call succeeds GetRecipe answers NotFound exactly
\* when no recipe is stored for the hash and otherwise returns the stored
\* recipe, and when the store call fails it answers 408 or 500.
C20_QueriesArePureAndGetRecipeFindsUnlessStoreFails ==
    /\ [][QueriesOnlyRead]_vars
    /\ [](\A p \in Procs :
            LET r == run[p] IN
            QueryDone(r, "GetRecipe") =>
                /\ r.err = "nil" =>
                     /\ (r.status = 404) <=> (StoredRecipes(r.imageHash) = {})
                     /\ StoredRecipes(r.imageHash) # {} =>
                            r.status = 200 /\ {r.body} = StoredRecipes(r.imageHash)
                /\ r.err # "nil" =>
                     /\ r.status \in {408, 500}
                     /\ r.body \notin StoredRecipes(r.imageHash))

\* GetRecipe returned the recipe that an upload had stored.
C20_Witness ==
    \E p \in Procs :
        /\ QueryDone(run[p], "GetRecipe")
        /\ run[p].status = 200
        /\ {run[p].body} = StoredRecipes(run[p].imageHash)

\* The run has called GenerateRecipe: the recipe lookup was a miss for a
\* food image.
CalledGenerateRecipe(r) == "GenerateRecipe" \in Range(r.calls)

\* C21: on a recipe cache miss for a food image the provider's GenerateRecipe
\* receives the request's dietary_preference and cuisine unchanged, whatever
\* the two values are (either may be empty).
C21_RequestValuesReachGenerateRecipeUnchanged ==
    \A p \in Procs :
        CalledGenerateRecipe(run[p])
            => /\ run[p].receivedDietaryPreference = run[p].dietaryPreference
               /\ run[p].receivedCuisine = run[p].cuisine
               /\ \E query \in Queries :
                    /\ run[p].receivedDietaryPreference = query.dietary_preference
                    /\ run[p].receivedCuisine = query.cuisine

\* A run asked for vegetarian and no cuisine, its recipe lookup missed, and
\* GenerateRecipe got "vegetarian" and "".
C21_Witness ==
    \E p \in Procs :
        /\ CalledGenerateRecipe(run[p])
        /\ run[p].recipeAtStart = {}
        /\ run[p].isFood
        /\ run[p].receivedDietaryPreference = <<"v","e","g">>
        /\ run[p].receivedCuisine = <<>>
        /\ run[p].status = 200

\* C22: on the cache-hit path isFood is false exactly when the stored
\* description, trimmed and lowercased, starts with "no": "  NO cat" and
\* "Noodles" give false, "Pasta" gives true.
C22_CachedIsFoodFollowsNoPrefixRule ==
    \A p \in Procs :
        LET r == run[p] IN
        ("GetImageMetadata" \in Range(r.calls) /\ r.imageDescription # <<>>)
            => /\ r.isFood = DerivedIsFood(r.imageDescription)
               /\ r.imageDescription = <<" ","N","O">> => ~r.isFood
               /\ r.imageDescription = <<"N","o","o">> => ~r.isFood
               /\ r.imageDescription = <<"P","a","s">> => r.isFood
               /\ "IsFoodImage" \notin Range(r.calls)

\* A stored "  NO" description was found and the run was rejected without
\* asking the model.
C22_Witness ==
    \E p \in Procs :
        /\ run[p].imageDescription = <<" ","N","O">>
        /\ "IsFoodImage" \notin Range(run[p].calls)
        /\ ~run[p].isFood
        /\ Rejected(run[p])

\* The recipe table has a row for the fingerprint of row, before and after
\* the step.
KeepsRecipe(row) ==
    \E kept \in recipes' : kept.ImageHash = row.ImageHash

\* C23: the recipe table holds at most one recipe per fingerprint in every
\* reachable state; a SaveRecipe for a fingerprint that has a recipe replaces
\* it by the saved recipe in one step, every field of it; and no step removes
\* a recipe: a fingerprint that has a recipe keeps having one.
C23_OneRecipePerFingerprintNeverRemoved ==
    /\ [](\A imageHash \in Hashes : Cardinality(StoredRecipes(imageHash)) <= 1)
    /\ [][ /\ \A row \in recipes : KeepsRecipe(row)
           /\ \A p \in Procs :
                SavesRecipe(p) =>
                   recipes' = {row \in recipes : row.ImageHash # run'[p].recipe.ImageHash}
                                 \cup {run'[p].recipe}
           /\ \A row \in recipes' \ recipes :
                \E p \in Procs : SavesRecipe(p) /\ row = run'[p].recipe
         ]_vars

\* Run p1 saved the recipe titled X and answered with it; the table now holds
\* for the same fingerprint the recipe titled Y that p2 saved after it, and
\* nothing of X.
C23_Witness ==
    /\ RecipeReady(run["p1"]) /\ LastCall(run["p1"]) = "SaveRecipe"
    /\ RecipeReady(run["p2"]) /\ LastCall(run["p2"]) = "SaveRecipe"
    /\ run["p1"].recipe.Title = "X"
    /\ run["p2"].recipe.Title = "Y"
    /\ run["p1"].recipe.ImageHash = run["p2"].recipe.ImageHash
    /\ recipes = {run["p2"].recipe}

\* The run has passed the entry of the handler: its key has been computed.
Keyed(r) == r.pc # "idle" /\ r.imageHash # ""

GenerateRecipeRequests(r) ==
    IF "IsFoodImage" \in Range(r.calls) THEN Tail(r.reqs) ELSE r.reqs

\* A raw model text that is a recipe JSON object and nothing else.
CleanRecipeTexts == {<<"{", b, "}">> : b \in BodyNames}

\* The run called GenerateRecipe and the model answered its recipe prompt
\* with text.
GeneratedFrom(r, text) ==
    /\ CalledGenerateRecipe(r)
    /\ "generate" \in Range(r.reqs)
    /\ r.genText = text

\* The recipe as GenerateRecipe returned it: without the fields the handler
\* fills in afterwards.
AsGenerated(recipe) ==
    IF recipe = Nil THEN Nil ELSE [recipe EXCEPT !.ImageHash = "", !.ImagePath = <<>>]

\* C25: the two providers are interchangeable: for the same image, the same
\* dietaryPreference and cuisine and the same clean recipe JSON as raw model
\* text, GenerateRecipe of the Gemini client and of the local client return
\* the same outcome and the same Recipe in every field, and issue the same
\* model requests in kind and number.
C25_ProvidersAreInterchangeable ==
    \A p, q \in Procs :
        \A text \in CleanRecipeTexts :
            ( /\ run[p].endpoint = "Upload" /\ run[q].endpoint = "UploadV2"
              /\ GeneratedFrom(run[p], text) /\ GeneratedFrom(run[q], text)
              /\ run[p].imageData = run[q].imageData
              /\ run[p].dietaryPreference = run[q].dietaryPreference
              /\ run[p].cuisine = run[q].cuisine )
            => /\ (run[p].recipe = Nil) = (run[q].recipe = Nil)
               /\ AsGenerated(run[p].recipe) = AsGenerated(run[q].recipe)
               /\ GenerateRecipeRequests(run[p]) = GenerateRecipeRequests(run[q])

\* The run returned on the error of a call of the recipe stage.
FailedInRecipeStage(r) ==
    r.pc = "done" /\ LastCall(r) \in RecipeCalls /\ r.err # "nil"

\* C26: in the recipe stage a deadline-exceeded error of GetRecipeByImageHash,
\* GenerateRecipe or SaveRecipe is answered 408, and every other error of the
\* three calls is answered 500, or 400 when it is ErrNotFoodImage; an error
\* that is not a deadline is never answered 408 and a deadline never 500 or 400.
C26_RecipeStageDeadlineIs408OtherErrorsAreNot ==
    \A p \in Procs :
        LET r == run[p] IN
        FailedInRecipeStage(r) =>
            /\ r.err = "deadline" <=> r.status = 408
            /\ r.err = "notfood" <=> r.status = 400
            /\ r.err \notin {"deadline", "notfood"} <=> r.status = 500
            /\ r.body.err = r.err

\* A run of UploadV2 whose GenerateRecipe ran into the deadline was answered 408.
C26_Witness ==
    \E p \in Procs :
        /\ FailedInRecipeStage(run[p])
        /\ LastCall(run[p]) = "GenerateRecipe"
        /\ run[p].err = "deadline"
        /\ run[p].status = 408
        /\ run[p].endpoint = "UploadV2"

\* A call of the run returned an error that the handler does not swallow:
\* the error of SaveImageMetadata and of saveNonFoodImage is kept in saveErr.
FailedFatally(r) == r.err # "nil"

NoCallTwice(calls) ==
    \A i, j \in DOMAIN calls : calls[i] = calls[j] => i = j

\* C27: a run of which a stage fails fatally (deadline, model error, malformed
\* output, recipe lookup or save failure) ends Failed with that step: it
\* makes no call afterwards, has made no call twice, and the recipe table is
\* as it was before the run.
C27_FatalFailureEndsTheRunAndLeavesRecipesAlone ==
    /\ [](\A p \in Procs :
            LET r == run[p] IN
            FailedFatally(r) =>
               /\ r.pc = "done"
               /\ r.status \in {400, 408, 500}
               /\ r.err # "notfood" => Failed(r)
               /\ NoCallTwice(r.calls)
               /\ r.body.err = r.err
               /\ StoredRecipes(r.imageHash) = r.recipeAtStart)
    /\ [][\A p \in Procs :
            /\ (~FailedFatally(run[p]) /\ FailedFatally(run'[p])) => recipes' = recipes
            /\ FailedFatally(run[p]) =>
                 \/ run'[p] = run[p]
                 \/ run'[p].calls = <<>> /\ started' = started + 1
         ]_vars

\* SaveRecipe of a run failed after all six calls before it had succeeded:
\* the run ended with 500 and the table has no recipe for its image, as
\* before the run.
C27_Witness ==
    \E p \in Procs :
        /\ FailedFatally(run[p])
        /\ run[p].calls = <<"GetImageMetadata", "IsFoodImage", "SaveImageMetadata",
                            "GetRecipeByImageHash", "GenerateRecipe", "saveImage",
                            "SaveRecipe">>
        /\ run[p].err = "db"
        /\ run[p].status = 500
        /\ run[p].recipeAtStart = {}
        /\ StoredRecipes(run[p].imageHash) = {}

\* The calls that are given the context of the run.
ContextCalls == ClassificationCalls \cup RecipeCalls

\* Run p makes a call in this step.
Calls(p, call) == run'[p].calls = Append(run[p].calls, call)

\* C28: the run has one deadline from its entry on; it is not reset between
\* stages: once it has elapsed it stays elapsed for the run, every store or
\* provider call the run makes afterwards fails with deadline exceeded, and
\* no recipe is generated or written after it.
C28_OneDeadlineForTheWholeRun ==
    /\ [][\A p \in Procs :
            run[p].expired =>
               /\ run'[p].calls # <<>> => run'[p].expired
               /\ \A call \in ContextCalls :
                    Calls(p, call) =>
                       /\ IF call = "SaveImageMetadata"
                          THEN run'[p].saveErr = "deadline"
                          ELSE run'[p].err = "deadline" /\ Failed(run'[p])
                       /\ run'[p].recipe = run[p].recipe
                       /\ run'[p].reqs = run[p].reqs
                       /\ recipes' = recipes
                       /\ image_metadata' = image_metadata
         ]_vars
    /\ [](\A p \in Procs :
            (run[p].expired /\ run[p].recipe # Nil) =>
               /\ LastCall(run[p]) = "SaveRecipe"
               /\ run[p].err = "deadline"
               /\ StoredRecipes(run[p].imageHash) = run[p].recipeAtStart)

\* The deadline elapsed while the classification was being stored, which the
\* handler only logs; the recipe lookup that followed failed with deadline
\* exceeded and the run was answered 408 without a recipe.
C28_Witness ==
    \E p \in Procs :
        /\ run[p].expired
        /\ run[p].calls = <<"GetImageMetadata", "IsFoodImage", "SaveImageMetadata",
                            "GetRecipeByImageHash">>
        /\ run[p].saveErr = "deadline"
        /\ run[p].err = "deadline"
        /\ Timeout(run[p])
        /\ run[p].recipe = Nil

\* C29: archiving a rejected image is best-effort: whether saveNonFoodImage
\* returns an error or not, the run that called it ends Rejected and not
\* Failed, and the step changes neither the classification table nor the
\* recipe table.
C29_ArchivingNonFoodIsBestEffort ==
    /\ [](\A p \in Procs :
            LastCall(run[p]) = "saveNonFoodImage" =>
               /\ Rejected(run[p])
               /\ ~Failed(run[p])
               /\ ~run[p].isFood
               /\ run[p].recipe = Nil)
    /\ [][\A p \in Procs :
            Calls(p, "saveNonFoodImage") =>
               /\ recipes' = recipes
               /\ image_metadata' = image_metadata
         ]_vars

\* saveNonFoodImage could not decode the bytes of an image whose stored
\* description says no food; the run was answered with the rejection message.
C29_Witness ==
    \E p \in Procs :
        /\ LastCall(run[p]) = "saveNonFoodImage"
        /\ run[p].saveErr = "decode"
        /\ run[p].imageDescription # <<>>
        /\ Rejected(run[p])

\* The descriptions stored as the classification of imageHash.
StoredDescriptions(imageHash) ==
    {row.description : row \in {m \in image_metadata : m.image_hash = imageHash}}

\* C30: in every reachable state, whatever the sequence of Upload and UploadV2
\* runs, a fingerprint that has a stored recipe has no stored classification
\* that derives isFood = false under the "no"-prefix rule, and no run for an
\* image is Rejected while a recipe for the image is in the table.
C30_StoredRecipeImpliesFoodClassification ==
    /\ \A imageHash \in Hashes :
         StoredRecipes(imageHash) # {} =>
            \A description \in StoredDescriptions(imageHash) : DerivedIsFood(description)
    /\ \A p \in Procs :
         Rejected(run[p]) => StoredRecipes(run[p].imageHash) = {}

\* The number of requests of a kind among the model requests of a run.
Requests(r, kind) == Cardinality({i \in DOMAIN r.reqs : r.reqs[i] = kind})

\* C31: a run of Upload or UploadV2 sends the model at most one classification
\* request and at most one recipe request, the requests that the client's
\* GenerateRecipe makes included.
C31_AtMostOneRequestOfEachKind ==
    \A p \in Procs :
        /\ Requests(run[p], "classify") <= 1
        /\ Requests(run[p], "generate") <= 1

\* The place of call among the calls of the run, 0 when it was not made.
PlaceOf(r, call) ==
    IF call \in Range(r.calls)
    THEN CHOOSE i \in DOMAIN r.calls : r.calls[i] = call
    ELSE 0

\* saveImage of the run has returned an error.
ArchiveFailed(r) == LastCall(r) = "saveImage" /\ r.err # "nil"

C33_StoredRecipeIsNotOverwrittenWithoutOverlap ==
    /\ [][\A row \in recipes : row \in recipes']_vars
    /\ [](\A p \in Procs :
            run[p].recipeAtStart # {} =>
                StoredRecipes(run[p].imageHash) = run[p].recipeAtStart)

\* A recipe with dietary preference "veg" was stored for the image; a later
\* run for the same image asked for "Ket" and was answered with the stored
\* recipe, which is still the one in the table.
C33_Witness ==
    \E row \in recipes :
        /\ row.DietaryPreference = <<"v", "e", "g">>
        /\ run["p1"].recipeAtStart = {row}
        /\ run["p1"].dietaryPreference = <<"K", "e", "t">>
        /\ run["p1"].endpoint = "Upload"
        /\ RecipeReady(run["p1"])
        /\ run["p1"].body = row
        /\ StoredRecipes(run["p1"].imageHash) = {row}

DirectEndpoints == {"IsFood", "RecipeFinderLocal"}

StoreCalls ==
    {"GetImageMetadata", "SaveImageMetadata", "GetRecipeByImageHash", "SaveRecipe",
     "GetRecipesByCuisineOrDietaryPreference"}

\* Run p answers a request to a direct endpoint in this step.
DirectStep(p) == started' # started /\ run'[p].endpoint \in DirectEndpoints

\* C34: IsFood and RecipeFinderLocal bypass the cache: whatever the input and
\* the outcome, a request to them makes no store call and leaves the
\* classification table and the recipe table as they were, so every stored
\* row is one that an Upload or UploadV2 run wrote.
C34_DirectEndpointsBypassTheStores ==
    /\ [][\A p \in Procs :
            DirectStep(p) =>
               /\ recipes' = recipes
               /\ image_metadata' = image_metadata
               /\ Range(run'[p].calls) \cap StoreCalls = {}
               /\ run'[p].pc = "done"
         ]_vars
    /\ [](\A row \in recipes : row.ImageHash # "" /\ row.ImagePath # <<>>)

\* RecipeFinderLocal answered 200 with the recipe X for a picture while the
\* recipe table holds nothing for the picture; the classification stored by
\* an earlier upload is still there.
C34_Witness ==
    \E p \in Procs :
        /\ run[p].endpoint = "RecipeFinderLocal"
        /\ run[p].status = 200
        /\ run[p].recipe # Nil
        /\ run[p].body.Title = "X"
        /\ StoredRecipes(GenerateImageHash(run[p].imageData)) = {}
        /\ StoredDescriptions(GenerateImageHash(run[p].imageData)) # {}

\* The lower-cased extension of the file of the run is none of .jpeg, .jpg
\* and .png.
ExtensionRefused(r) ==
    /\ r.endpoint \in Endpoints
    /\ r.extension # <<>>
    /\ r.extension \notin {<<".", "j", "p", "e", "g">>, <<".", "j", "p", "g">>,
                           <<".", "p", "n", "g">>}

\* C35: Upload and UploadV2 answer a file whose lower-cased extension is not
\* .jpeg, .jpg or .png with 400 before the pipeline starts: the run computes
\* no fingerprint, makes no store or provider call and sends the model
\* nothing, and the step leaves both tables unchanged.
C35_RefusedExtensionStartsNothing ==
    /\ [](\A p \in Procs :
            ExtensionRefused(run[p]) =>
               /\ run[p].pc = "done"
               /\ run[p].status = 400
               /\ run[p].body = [msg |-> "Invalid file type", err |-> "nil"]
               /\ run[p].calls = <<>>
               /\ run[p].reqs = <<>>
               /\ run[p].imageHash = ""
               /\ run[p].recipe = Nil)
    /\ [][\A p \in Procs :
            (started' # started /\ ExtensionRefused(run'[p])) =>
               /\ recipes' = recipes
               /\ image_metadata' = image_metadata
         ]_vars

\* A .gif file sent to UploadV2 was answered 400 without a call, after an
\* earlier run had stored a classification and a recipe, which are still
\* there.
C35_Witness ==
    \E p \in Procs :
        /\ ExtensionRefused(run[p])
        /\ run[p].extension = <<".", "g", "i", "f">>
        /\ run[p].endpoint = "UploadV2"
        /\ run[p].status = 400
        /\ run[p].calls = <<>>
        /\ recipes # {}
        /\ image_metadata # {}

====
